---------------------------- MODULE Spec2Model ----------------------------
(***************************************************************************)
(* A model of src/index.js: the Synthesizer class (json-to-synthesis).     *)
(*                                                                         *)
(* Representation choices                                                  *)
(*  - A JavaScript value that may be undefined and is otherwise an array   *)
(*    (rules, skipKeys) is an option record: None, or Some(sequence).      *)
(*    "def" is the value's truthiness: an empty array is truthy.           *)
(*  - Observed values are strings; Undefined and "" are the falsy ones.    *)
(*  - A hook (filterData, translateKey, translateValue) is the name of a   *)
(*    function of a small registry; Apply* gives what calling it returns.  *)
(*  - A percentage is held in tenths of a percent (66.7 is 667), which is  *)
(*    exact for Number(x.toFixed(1)).                                      *)
(*  - An absent rule operator is Undefined; an absent cap is 0 (the code   *)
(*    only tests cap for truthiness, and 0 and undefined are both falsy).  *)
(*  - transform is modelled for calls without dataPath.                    *)
(***************************************************************************)
EXTENDS Integers, Sequences, FiniteSets, TLC

VARIABLES
    inst,     \* the fields of the Synthesizer instance
    disk,     \* names of the files the call has written
    emitted,  \* topics of the events the call has emitted, in order
    pc,       \* "idle", or "tally" while a transform consumes its documents
    call,     \* the current (or last) call: its operation and arguments
    outcome,  \* "running", "returned" or "threw"
    error,    \* message of the error thrown ("" if none)
    pre,      \* the instance fields when the call was entered
    work,     \* transform's locals: pending documents, regole, results
    out       \* transform's outputs: finalResults, stats, cb calls, writes

vars == <<inst, disk, emitted, pc, call, outcome, error, pre, work, out>>

----------------------------------------------------------------------------
(* Values *)

Undefined == "<undefined>"

None == [def |-> FALSE, v |-> <<>>]

Some(x) == [def |-> TRUE, v |-> x]

Falsy(value) == value = Undefined \/ value = ""

Range(s) == {s[n] : n \in 1..Len(s)}

\* Array.prototype.includes
Includes(s, x) == \E n \in 1..Len(s) : s[n] = x

\* Array.prototype.slice(0, end): a negative end counts from the end.
Slice(s, end) ==
    LET len == Len(s)
        k   == IF end < 0 THEN (IF len + end < 0 THEN 0 ELSE len + end)
               ELSE (IF end > len THEN len ELSE end)
    IN  SubSeq(s, 1, k)

\* The properties every plain object inherits from Object.prototype: reading
\* one of them off an object that does not own it yields a truthy value.
ObjectPrototypeKeys ==
    {"constructor", "toString", "valueOf", "hasOwnProperty", "__proto__"}

\* The canonical array index a property key denotes, -1 if it denotes none.
ArrayIndex(k) ==
    CASE k = "0" -> 0 [] k = "1" -> 1 [] k = "2" -> 2 [] OTHER -> -1

----------------------------------------------------------------------------
(* Documents *)

Keys == {"a", "b"}

\* The order in which a document lists its own keys.
KeyOrder == <<"a", "b">>

Scalar(v) == [isArray |-> FALSE, items |-> <<v>>]

Array(vs) == [isArray |-> TRUE, items |-> vs]

Absent == Scalar(Undefined)

Doc(a, b) == [k \in Keys |-> IF k = "a" THEN a ELSE b]

\* lodash.get(doc, field)
get(doc, field) == IF field \in DOMAIN doc THEN doc[field] ELSE Absent

ObjectKeys(doc) == SelectSeq(KeyOrder, LAMBDA k : doc[k] # Absent)

----------------------------------------------------------------------------
(* Hooks *)

ApplyFilterData(h, key, value) ==
    CASE h = "fdDefault" -> FALSE
      [] h = "fdDropY"   -> value = "y"
      [] OTHER           -> FALSE

ApplyTranslateKey(h, key) ==
    CASE h = "tkDefault" -> key
      [] h = "tkToA"     -> "a"
      [] OTHER           -> key

ApplyTranslateValue(h, key, value) ==
    CASE h = "tvDefault" -> value
      [] h = "tvMerge"   -> IF value = "y" THEN "x" ELSE value
      [] OTHER           -> value

----------------------------------------------------------------------------
(* Rules *)

Rule(key, mode, threshold, operator, cap) ==
    [key |-> key, mode |-> mode, threshold |-> threshold,
     operator |-> operator, cap |-> cap]

DefaultRuleValue == 3

RECURSIVE AddAll(_, _)
AddAll(set, ks) ==
    IF ks = <<>> THEN set
    ELSE AddAll(IF Includes(set, Head(ks)) THEN set ELSE Append(set, Head(ks)),
                Tail(ks))

\* The Set of keys _buildDefaultRules collects, in insertion order.
RECURSIVE CollectKeys(_, _)
CollectKeys(docs, set) ==
    IF docs = <<>> THEN set
    ELSE CollectKeys(Tail(docs), AddAll(set, ObjectKeys(Head(docs))))

\* _buildDefaultRules reads this.skipKeys.includes for each collected key.
buildDefaultRulesThrows(i, docs) ==
    ~i.skipKeys.def /\ CollectKeys(docs, <<>>) # <<>>

RECURSIVE RulesFor(_, _)
RulesFor(i, ks) ==
    IF ks = <<>> THEN <<>>
    ELSE LET key == Head(ks)
         IN  (IF ~Includes(i.skipKeys.v, key)
                 /\ ~ApplyFilterData(i.filterData, key, Undefined)
              THEN <<Rule(key, i.defaultRuleMode, i.defaultRuleValue, Undefined, 0)>>
              ELSE <<>>)
             \o RulesFor(i, Tail(ks))

buildDefaultRules(i, docs) == RulesFor(i, CollectKeys(docs, <<>>))

----------------------------------------------------------------------------
(* Tally *)

EmptyRoot == [total |-> 0, values |-> <<>>]

HasOwn(values, value) == \E n \in 1..Len(values) : values[n].key = value

addValue(value, root) ==
    IF Falsy(value) THEN root
    ELSE IF HasOwn(root.values, value)
    THEN [total  |-> root.total + 1,
          values |-> [n \in 1..Len(root.values) |->
                        IF root.values[n].key = value
                        THEN [root.values[n] EXCEPT !.count = @ + 1]
                        ELSE root.values[n]]]
    ELSE IF value \in ObjectPrototypeKeys
    \* root.values[value] is the inherited member: truthy, so its own count
    \* property is bumped and no entry is created
    THEN [root EXCEPT !.total = @ + 1]
    ELSE [total  |-> root.total + 1,
          values |-> Append(root.values, [key |-> value, count |-> 1])]

RECURSIVE Observe(_, _, _, _)
Observe(i, field, items, root) ==
    IF items = <<>> THEN root
    ELSE LET v == Head(items)
         IN  Observe(i, field, Tail(items),
                     IF ApplyFilterData(i.filterData, field, v) THEN root
                     ELSE addValue(ApplyTranslateValue(i.translateValue, field, v), root))

\* Whether some observation reaches root.values in addValue.
Touches(i, field, items) ==
    \E n \in 1..Len(items) :
        /\ ~ApplyFilterData(i.filterData, field, items[n])
        /\ ~Falsy(ApplyTranslateValue(i.translateValue, field, items[n]))

\* One iteration of the for-await loop over the documents.
RECURSIVE TallyDoc(_, _, _, _)
TallyDoc(i, doc, fields, res) ==
    IF fields = <<>> THEN [threw |-> FALSE, results |-> res]
    ELSE IF ~i.skipKeys.def THEN [threw |-> TRUE, results |-> res]
    ELSE IF Includes(i.skipKeys.v, Head(fields))
    THEN TallyDoc(i, doc, Tail(fields), res)
    ELSE LET field == ApplyTranslateKey(i.translateKey, Head(fields))
             items == get(doc, field).items
         IN  IF field \in DOMAIN res
             THEN TallyDoc(i, doc, Tail(fields),
                           [res EXCEPT ![field] = Observe(i, field, items, @)])
             ELSE IF Touches(i, field, items)
             THEN [threw |-> TRUE, results |-> res]
             ELSE TallyDoc(i, doc, Tail(fields), res)

\* Number(((count / total) * 100).toFixed(1)), in tenths of a percent
Percentage(count, total) == (2000 * count + total) \div (2 * total)

WithPercentage(root) ==
    [n \in 1..Len(root.values) |->
        [key        |-> root.values[n].key,
         count      |-> root.values[n].count,
         percentage |-> Percentage(root.values[n].count, root.total)]]

\* Insertion of the weighted element e into s, sorted by ascending weight,
\* after every element whose weight is not greater: the sort is stable.
RECURSIVE InsertSorted(_, _)
InsertSorted(s, e) ==
    IF s = <<>> THEN <<e>>
    ELSE IF e.w < Head(s).w THEN <<e>> \o s
    ELSE <<Head(s)>> \o InsertSorted(Tail(s), e)

RECURSIVE StableSort(_)
StableSort(s) ==
    IF s = <<>> THEN <<>>
    ELSE InsertSorted(StableSort(SubSeq(s, 1, Len(s) - 1)), s[Len(s)])

Unweighted(s) == [n \in 1..Len(s) |-> s[n].e]

\* Object.entries: the array-index keys in ascending order, then the other
\* keys in the order they were created.
ObjectEntries(values) ==
    LET indexed == SelectSeq(values, LAMBDA e : ArrayIndex(e.key) >= 0)
    IN  Unweighted(StableSort([n \in 1..Len(indexed) |->
                                 [w |-> ArrayIndex(indexed[n].key), e |-> indexed[n]]]))
        \o SelectSeq(values, LAMBDA e : ArrayIndex(e.key) < 0)

\* Object.entries(v.values).sort((a, b) => b[1].count - a[1].count)
SortCount(values) ==
    LET entries == ObjectEntries(values)
    IN  Unweighted(StableSort([n \in 1..Len(entries) |->
                                 [w |-> 0 - entries[n].count, e |-> entries[n]]]))

sortedResults(results) ==
    [k \in DOMAIN results |-> SortCount(WithPercentage(results[k]))]

----------------------------------------------------------------------------
(* Apply Rules *)

\* regole.find((f) => f.key === k)
Find(regole, k) ==
    regole[CHOOSE n \in 1..Len(regole) :
             /\ regole[n].key = k
             /\ \A m \in 1..(n - 1) : regole[m].key # k]

\* The case clauses of the switch over the operator, in source order.
CaseOf(operator) ==
    CASE operator = "equal" -> 1
      [] operator = "lt"    -> 2
      [] operator = "lte"   -> 3
      [] operator = "gt"    -> 4
      [] OTHER              -> 5

CaseFilter(n, v, threshold) ==
    CASE n = 1 -> SelectSeq(v, LAMBDA j : j.percentage = 10 * threshold)
      [] n = 2 -> SelectSeq(v, LAMBDA j : j.percentage < 10 * threshold)
      [] n = 3 -> SelectSeq(v, LAMBDA j : j.percentage <= 10 * threshold)
      [] n = 4 -> SelectSeq(v, LAMBDA j : j.percentage > 10 * threshold)
      [] OTHER -> SelectSeq(v, LAMBDA j : j.percentage >= 10 * threshold)

\* No clause ends in a break: control enters at the operator's clause and
\* runs every later clause, each assigning the selection anew.
RECURSIVE RunCases(_, _, _, _)
RunCases(n, v, threshold, cur) ==
    IF n > 5 THEN cur
    ELSE RunCases(n + 1, v, threshold, CaseFilter(n, v, threshold))

\* The ranked entries a rule keeps (stats[k]); finalResults[k] is their keys.
Selected(rule, v) ==
    IF rule.mode = "top" THEN Slice(v, rule.threshold)
    ELSE LET s == RunCases(CaseOf(rule.operator), v, rule.threshold, <<>>)
         IN  IF rule.cap # 0 THEN Slice(s, rule.cap) ELSE s

KeysOf(v) == [n \in 1..Len(v) |-> v[n].key]

KnownMode(regole, k) == Find(regole, k).mode \in {"top", "percentage"}

ApplyRules(regole, sorted) ==
    [k \in {f \in DOMAIN sorted : KnownMode(regole, f)} |->
        Selected(Find(regole, k), sorted[k])]

----------------------------------------------------------------------------
(* Model codec *)

\* The record getModel builds; creationDate is Date.now().
ModelOf(i, now) ==
    [name                   |-> i.name,
     rules                  |-> i.rules,
     skipKeys               |-> i.skipKeys,
     filterData             |-> i.filterData,
     translateKey           |-> i.translateKey,
     translateValue         |-> i.translateValue,
     defaultRuleMode        |-> i.defaultRuleMode,
     defaultRuleValue       |-> i.defaultRuleValue,
     defaultRuleOperator    |-> i.defaultRuleOperator,
     keepAutogeneratedRules |-> i.keepAutogeneratedRules,
     creationDate           |-> now]

\* serialize-javascript renders each property under its name, a function as
\* its source text; eval of the parenthesised text rebuilds the object.
serialize(model) == [text |-> "js", props |-> model]

eval(serialized) == serialized.props

gzipSync(serialized) == [gzip |-> TRUE, data |-> serialized]

\* Bytes that are no gzip stream: unzipSync throws on them.
Garbage == [gzip |-> FALSE, data |-> <<>>]

unzipThrows(raw) == ~raw.gzip

unzipSync(raw) == raw.data

\* The compressed half of getModel's result.
getModel(i, now) == gzipSync(serialize(ModelOf(i, now)))

\* The fields extractDataFromModel assigns; a property the decoded object
\* lacks reads as undefined.
extractDataFromModel(i, raw) ==
    LET model == eval(unzipSync(raw))
    IN  [i EXCEPT
           !.name                   = model.name,
           !.rules                  = model.rules,
           !.skipKeys               = IF "skipFields" \in DOMAIN model
                                      THEN model.skipFields ELSE None,
           !.filterData             = model.filterData,
           !.translateKey           = model.translateKey,
           !.translateValue         = model.translateValue,
           !.defaultRuleMode        = model.defaultRuleMode,
           !.defaultRuleValue       = model.defaultRuleValue,
           !.defaultRuleOperator    = model.defaultRuleOperator,
           !.keepAutogeneratedRules = model.keepAutogeneratedRules]

----------------------------------------------------------------------------
(* Construction *)

\* new Synthesizer({name, rules, skipKeys, keepAutogeneratedRules, ...}): the
\* branch that takes neither a model nor a path.
FromConfig(rules, skipKeys, keep, filterData, translateValue) ==
    [name                   |-> "synth",
     rules                  |-> rules,
     skipKeys               |-> Some(skipKeys),
     filterData             |-> filterData,
     translateKey           |-> "tkDefault",
     translateValue         |-> translateValue,
     defaultRuleMode        |-> "top",
     defaultRuleValue       |-> DefaultRuleValue,
     defaultRuleOperator    |-> "gte",
     keepAutogeneratedRules |-> keep,
     model                  |-> "undefined"]

\* The fields before the constructor assigns any.
Blank ==
    [name                   |-> Undefined,
     rules                  |-> None,
     skipKeys               |-> None,
     filterData             |-> Undefined,
     translateKey           |-> Undefined,
     translateValue         |-> Undefined,
     defaultRuleMode        |-> Undefined,
     defaultRuleValue       |-> 0,
     defaultRuleOperator    |-> Undefined,
     keepAutogeneratedRules |-> FALSE,
     model                  |-> "undefined"]

\* The defaults the constructor fills in for fields still falsy.
WithDefaults(i) ==
    [i EXCEPT
       !.name           = IF Falsy(@) THEN "synth" ELSE @,
       !.filterData     = IF Falsy(@) THEN "fdDefault" ELSE @,
       !.translateKey   = IF Falsy(@) THEN "tkDefault" ELSE @,
       !.translateValue = IF Falsy(@) THEN "tvDefault" ELSE @]

\* new Synthesizer({model}): this.model is the raw artifact.
FromModel(raw) ==
    WithDefaults([extractDataFromModel(Blank, raw) EXCEPT !.model = "bytes"])

\* new Synthesizer({path}): loadModel keeps the decoded object.
FromPath(raw) ==
    WithDefaults([extractDataFromModel(Blank, raw) EXCEPT !.model = "object"])

MaxClock == 1

Clock == 0..MaxClock

RulesA == <<Rule("a", "top", 1, Undefined, 0)>>

RulesB == <<Rule("b", "percentage", 50, "gte", 0)>>

Configs ==
    {FromConfig(r, s, k, "fdDefault", tv) :
        r \in {None, Some(RulesA)}, s \in {<<>>, <<"b">>}, k \in BOOLEAN,
        tv \in {"tvDefault"}}

\* Artifacts an instance may be handed: saved by some instance, or corrupt.
Artifacts == {getModel(c, now) : c \in Configs, now \in Clock}

NoCall == [op |-> "new"]

NoWork == [pending |-> <<>>, regole |-> <<>>, results |-> <<>>]

NoOut == [finalResults |-> <<>>, stats |-> <<>>, cbCalls |-> 0, written |-> 0]

InitWith(i, topics) ==
    /\ inst = i
    /\ disk = {}
    /\ emitted = topics
    /\ pc = "idle"
    /\ call = NoCall
    /\ outcome = "returned"
    /\ error = ""
    /\ pre = i
    /\ work = NoWork
    /\ out = NoOut

Init ==
    \/ \E c \in Configs : InitWith(c, <<>>)
    \/ \E raw \in Artifacts : InitWith(FromModel(raw), <<>>)
    \/ \E raw \in Artifacts : InitWith(FromPath(raw), <<"model_loaded">>)

----------------------------------------------------------------------------
(* Operations *)

\* A call is entered when no transform is under way; what the previous call
\* left behind (its locals, its outputs, its events, its writes) is dropped.
Enter(c) ==
    /\ pc = "idle"
    /\ call' = c
    /\ pre' = inst

Plain ==
    /\ work' = NoWork
    /\ out' = NoOut
    /\ UNCHANGED pc

Return ==
    /\ outcome' = "returned"
    /\ error' = ""

Throw(message) ==
    /\ outcome' = "threw"
    /\ error' = message

\* setParams({rules, skipFields, filterData, translateKey, translateValue});
\* an omitted array is None, an omitted hook is Undefined.
Merged(i, p) ==
    [i EXCEPT
       !.rules        = IF p.rules.def THEN p.rules ELSE @,
       !.skipKeys     = IF p.skipFields.def THEN p.skipFields ELSE @,
       !.filterData   = IF ~Falsy(p.filterData) THEN p.filterData ELSE @,
       !.translateKey = IF ~Falsy(p.translateKey) THEN p.translateKey ELSE @]
       \* line 59 evaluates this.translateValue and assigns nothing

SetParams(p) ==
    /\ Enter([op |-> "setParams", params |-> p])
    /\ inst' = Merged(inst, p)
    /\ emitted' = <<"model_update">>
    /\ disk' = {}
    /\ Return
    /\ Plain

GetRules ==
    /\ Enter([op |-> "getRules"])
    /\ Return
    /\ Plain
    /\ disk' = {}
    /\ emitted' = <<>>
    /\ UNCHANGED inst

GetModel(now) ==
    /\ Enter([op |-> "getModel", now |-> now])
    /\ Return
    /\ Plain
    /\ disk' = {}
    /\ emitted' = <<>>
    /\ UNCHANGED inst

SetModel(raw) ==
    /\ Enter([op |-> "setModel", raw |-> raw])
    /\ IF unzipThrows(raw)
       THEN /\ Throw("incorrect header check")
            /\ emitted' = <<>>
            /\ UNCHANGED inst
       ELSE /\ inst' = [extractDataFromModel(inst, raw) EXCEPT !.model = "object"]
            /\ emitted' = <<"model_set">>
            /\ Return
    /\ disk' = {}
    /\ Plain

\* loadModel(path): exists tells whether readFileSync finds the file, raw is
\* what it reads.
LoadModel(exists, raw) ==
    /\ Enter([op |-> "loadModel", exists |-> exists, raw |-> raw])
    /\ IF ~exists
       THEN /\ Throw("ENOENT")
            /\ emitted' = <<>>
            /\ UNCHANGED inst
       ELSE IF unzipThrows(raw)
       THEN /\ Throw("incorrect header check")
            /\ emitted' = <<>>
            /\ UNCHANGED inst
       ELSE /\ inst' = [extractDataFromModel(inst, raw) EXCEPT !.model = "object"]
            /\ emitted' = <<"model_loaded">>
            /\ Return
    /\ disk' = {}
    /\ Plain

SaveModel(dir, generateJSONCopy) ==
    /\ Enter([op |-> "saveModel", dir |-> dir, generateJSONCopy |-> generateJSONCopy])
    /\ IF dir = ""
       THEN /\ Throw("No Path to Save Model")
            /\ disk' = {}
            /\ emitted' = <<>>
       ELSE IF inst.model = "undefined"
       THEN /\ Throw("No Model To Save")
            /\ disk' = {}
            /\ emitted' = <<>>
       ELSE /\ disk' = {<<dir, inst.name, "j2s">>}
                       \cup (IF generateJSONCopy THEN {<<dir, inst.name, "json">>} ELSE {})
            /\ emitted' = <<"model_save">>
            /\ Return
    /\ Plain
    /\ UNCHANGED inst

\* A slip that would keep the derived rules whatever the flag says.
KeptRulesAlways(i, autoRules) == Some(autoRules)

\* The rules a transform works with (the function at lines 91-103), and the
\* rules the instance holds afterwards.
KeptRules(i, autoRules) ==
    IF i.keepAutogeneratedRules THEN Some(autoRules) ELSE i.rules

Derives(i, rules) == ~rules.def /\ ~i.rules.def

regoleOf(i, rules, docs) ==
    IF rules.def THEN rules.v
    ELSE IF i.rules.def THEN i.rules.v
    ELSE buildDefaultRules(i, docs)

fieldsOf(regole) == [n \in 1..Len(regole) |-> regole[n].key]

\* Lines 86-119 of transform: the checks, the rules, the empty results. The
\* test of cb at line 113, (!typeof cb) === "function", is never true.
TransformBegin(docs, rules, includeStats, outputStream, cb, stream) ==
    /\ Enter([op |-> "transform", docs |-> docs, rules |-> rules,
              includeStats |-> includeStats, outputStream |-> outputStream,
              cb |-> cb, stream |-> stream])
    /\ out' = NoOut
    /\ disk' = {}
    /\ IF stream /\ (~rules.def \/ ~inst.rules.def)
       THEN /\ Throw("You Must Specify Rules when using a Stream")
            /\ work' = NoWork
            /\ emitted' = <<>>
            /\ UNCHANGED <<inst, pc>>
       ELSE IF Derives(inst, rules) /\ buildDefaultRulesThrows(inst, docs)
       THEN /\ Throw("TypeError")
            /\ work' = NoWork
            /\ emitted' = <<>>
            /\ UNCHANGED <<inst, pc>>
       ELSE LET regole == regoleOf(inst, rules, docs)
                fields == fieldsOf(regole)
            IN  /\ inst' = IF Derives(inst, rules)
                           THEN [inst EXCEPT !.rules = KeptRules(inst, regole)]
                           ELSE inst
                /\ emitted' = IF Derives(inst, rules) /\ inst.keepAutogeneratedRules
                              THEN <<"model_update">> ELSE <<>>
                /\ IF Len(regole) = 0
                   THEN /\ Throw("Not able to transform without rules")
                        /\ work' = NoWork
                        /\ UNCHANGED pc
                   ELSE IF outputStream = "notStream"
                   THEN /\ Throw("outputStream must be a writable stream")
                        /\ work' = NoWork
                        /\ UNCHANGED pc
                   ELSE /\ outcome' = "running"
                        /\ error' = ""
                        /\ pc' = "tally"
                        /\ work' = [pending |-> docs,
                                    regole  |-> regole,
                                    results |-> [f \in Range(fields) |-> EmptyRoot]]

\* One iteration of the loop at lines 130-151.
TransformDoc ==
    /\ pc = "tally"
    /\ work.pending # <<>>
    /\ LET r == TallyDoc(inst, Head(work.pending), fieldsOf(work.regole), work.results)
       IN  IF r.threw
           THEN /\ Throw("TypeError")
                /\ pc' = "idle"
                /\ UNCHANGED work
           ELSE /\ work' = [work EXCEPT !.pending = Tail(@), !.results = r.results]
                /\ UNCHANGED <<pc, outcome, error>>
    /\ UNCHANGED <<inst, disk, emitted, call, pre, out>>

\* Lines 153-216: percentages, ranking, selection, notification.
TransformEnd ==
    /\ pc = "tally"
    /\ work.pending = <<>>
    /\ LET selected == ApplyRules(work.regole, sortedResults(work.results))
       IN  out' = [finalResults |-> [k \in DOMAIN selected |-> KeysOf(selected[k])],
                   stats        |-> IF call.includeStats THEN selected ELSE <<>>,
                   cbCalls      |-> IF call.cb = "function" THEN 1 ELSE 0,
                   written      |-> IF call.outputStream = "stream" THEN 1 ELSE 0]
    /\ emitted' = Append(emitted, "transformed")
    /\ pc' = "idle"
    /\ Return
    /\ UNCHANGED <<inst, disk, call, pre, work>>

----------------------------------------------------------------------------
(* The instance over its life *)

ParamsSet ==
    [rules          : {None, Some(RulesB)},
     skipFields     : {None, Some(<<"b">>)},
     filterData     : {Undefined, "fdDropY"},
     translateKey   : {Undefined, "tkToA"},
     translateValue : {Undefined, "tvMerge"}]

Batches ==
    {<<>>,
     <<Doc(Scalar("x"), Scalar("y")), Doc(Scalar("y"), Scalar("y"))>>}

Next ==
    \/ \E p \in ParamsSet : SetParams(p)
    \/ GetRules
    \/ \E now \in Clock : GetModel(now)
    \/ \E raw \in Artifacts \cup {getModel(inst, now) : now \in Clock} \cup {Garbage} :
          SetModel(raw)
    \/ \E raw \in Artifacts \cup {Garbage} : LoadModel(TRUE, raw)
    \/ LoadModel(FALSE, Garbage)
    \/ \E dir \in {"", "out"}, copy \in BOOLEAN : SaveModel(dir, copy)
    \/ \E docs \in Batches, rules \in {None, Some(RulesA)},
          outputStream \in {Undefined, "stream", "notStream"},
          cb \in {Undefined, "function"}, stream \in BOOLEAN :
          TransformBegin(docs, rules, FALSE, outputStream, cb, stream)
    \/ TransformDoc
    \/ TransformEnd

Spec == Init /\ [][Next]_vars

----------------------------------------------------------------------------
(* The tally and selection engine on its own: the first transform of an    *)
(* instance configured with hooks, given its rules in the call (such a     *)
(* transform leaves nothing behind for the next one).                      *)

MaxDocs == 3

EngineDocs ==
    {Doc(a, Absent) :
        a \in {Scalar("x"), Scalar("y"), Scalar("1"), Scalar("toString"),
               Scalar(""), Array(<<"x", "y">>)}}

EngineBatches == UNION {[1..n -> EngineDocs] : n \in 0..MaxDocs}

EngineRules ==
    {<<Rule("a", "top", t, Undefined, 0)>> : t \in {-1, 0, 1, 2}}
    \cup {<<Rule("a", "percentage", 50, o, 0)>> :
            o \in {"equal", "lt", "lte", "gt", "gte", "ge", Undefined}}
    \cup {<<Rule("a", "percentage", 0, "gte", 1)>>}

InitEngine ==
    \E fd \in {"fdDefault", "fdDropY"}, tv \in {"tvDefault", "tvMerge"} :
        /\ fd = "fdDefault" \/ tv = "tvDefault"
        /\ InitWith(FromConfig(None, <<>>, FALSE, fd, tv), <<>>)

NextEngine ==
    \/ /\ call.op = "new"
       /\ \E docs \in EngineBatches, rules \in EngineRules :
             TransformBegin(docs, Some(rules), TRUE, Undefined, Undefined, FALSE)
    \/ TransformDoc
    \/ TransformEnd

SpecEngine == InitEngine /\ [][NextEngine]_vars

----------------------------------------------------------------------------
(* Properties *)

Transformed == call.op = "transform" /\ outcome = "returned"

\* The ranked tally of field k of the transform that has returned.
Ranked(k) == sortedResults(work.results)[k]

Satisfies(operator, percentage, threshold) ==
    CASE operator = "equal" -> percentage = 10 * threshold
      [] operator = "lt"    -> percentage < 10 * threshold
      [] operator = "lte"   -> percentage <= 10 * threshold
      [] operator = "gt"    -> percentage > 10 * threshold
      [] OTHER              -> percentage >= 10 * threshold

\* C1: under a "percentage" rule (no cap) the selection of a field is exactly
\* the ranked values whose percentage satisfies the rule's operator against
\* the threshold; gte stands in for an omitted or unrecognized operator.
C1_PercentageOperator ==
    Transformed =>
        \A k \in DOMAIN work.results :
            LET rule == Find(work.regole, k)
            IN  (rule.mode = "percentage" /\ rule.cap = 0) =>
                    out.finalResults[k] =
                        KeysOf(SelectSeq(Ranked(k),
                            LAMBDA j : Satisfies(rule.operator, j.percentage, rule.threshold)))

Min(x, y) == IF x < y THEN x ELSE y

\* C2: under a "top" rule the selection is the first min(threshold, number of
\* distinct values) ranked values, and is empty for every threshold <= 0.
C2_TopSelection ==
    Transformed =>
        \A k \in DOMAIN work.results :
            LET rule == Find(work.regole, k)
                n    == IF rule.threshold <= 0 THEN 0
                        ELSE Min(rule.threshold, Len(Ranked(k)))
            IN  rule.mode = "top" =>
                    out.finalResults[k] = KeysOf(SubSeq(Ranked(k), 1, n))

Decoded == call.op \in {"setModel", "loadModel"} /\ outcome = "returned"

\* C3: decoding an artifact that getModel encoded from a configuration gives
\* an instance with that configuration's rules, skipKeys, default rule fields
\* and keepAutogeneratedRules.
C3_RoundTrip ==
    Decoded =>
        \A c \in Configs \cup {pre} : \A now \in Clock :
            call.raw = getModel(c, now) =>
                /\ inst.rules = c.rules
                /\ inst.skipKeys = c.skipKeys
                /\ inst.defaultRuleMode = c.defaultRuleMode
                /\ inst.defaultRuleValue = c.defaultRuleValue
                /\ inst.defaultRuleOperator = c.defaultRuleOperator
                /\ inst.keepAutogeneratedRules = c.keepAutogeneratedRules

\* C4: a transform of a stream fails with the stream usage error exactly when
\* rules are neither given in the call nor configured on the instance.
C4_StreamNeedsRules ==
    (call.op = "transform" /\ call.stream) =>
        ((outcome = "threw" /\ error = "You Must Specify Rules when using a Stream")
            <=> (~call.rules.def /\ ~pre.rules.def))

\* C5: a transform given a callback has called it exactly once when the call
\* has ended, whether it returned or threw.
C5_CallbackOnce ==
    (call.op = "transform" /\ call.cb = "function" /\ outcome # "running") =>
        out.cbCalls = 1

\* C6: a call that failed has left the instance's fields as they were when
\* it was entered.
C6_FailureKeepsState == outcome = "threw" => inst = pre

\* C7: after setParams each of rules, skipKeys, filterData, translateKey and
\* translateValue is the value provided if a truthy one was, and the prior
\* value otherwise.
C7_SetParamsMerges ==
    (call.op = "setParams" /\ outcome = "returned") =>
        LET p == call.params
        IN  /\ inst.rules = (IF p.rules.def THEN p.rules ELSE pre.rules)
            /\ inst.skipKeys = (IF p.skipFields.def THEN p.skipFields ELSE pre.skipKeys)
            /\ inst.filterData =
                   (IF ~Falsy(p.filterData) THEN p.filterData ELSE pre.filterData)
            /\ inst.translateKey =
                   (IF ~Falsy(p.translateKey) THEN p.translateKey ELSE pre.translateKey)
            /\ inst.translateValue =
                   (IF ~Falsy(p.translateValue) THEN p.translateValue
                    ELSE pre.translateValue)

\* The place of a value among the values of field k in order of first
\* observation.
FirstSeen(k, value) ==
    CHOOSE n \in 1..Len(work.results[k].values) : work.results[k].values[n].key = value

\* C8: the ranked tally of a field is in descending order of count, and of
\* two values with the same count the one observed first comes first.
C8_RankingStable ==
    Transformed =>
        \A k \in DOMAIN work.results :
            \A m, n \in 1..Len(Ranked(k)) :
                m < n =>
                    /\ Ranked(k)[m].count >= Ranked(k)[n].count
                    /\ Ranked(k)[m].count = Ranked(k)[n].count =>
                           FirstSeen(k, Ranked(k)[m].key) < FirstSeen(k, Ranked(k)[n].key)

RECURSIVE SumCounts(_)
SumCounts(values) ==
    IF values = <<>> THEN 0 ELSE Head(values).count + SumCounts(Tail(values))

\* C9: at every point of a transform, the counts of the values of each
\* tallied field sum to its total and each count is at least 1.
C9_CountsSumToTotal ==
    \A k \in DOMAIN work.results :
        /\ SumCounts(work.results[k].values) = work.results[k].total
        /\ \A n \in 1..Len(work.results[k].values) : work.results[k].values[n].count >= 1

AutoDerivedAndKept ==
    /\ call'.op = "transform"
    /\ Derives(inst, call'.rules)
    /\ inst.keepAutogeneratedRules

\* C10 as stated: the rules of the instance change only in a setParams call
\* or in a transform that derives them while keepAutogeneratedRules is set.
C10_Original ==
    [][inst'.rules # inst.rules => (call'.op = "setParams" \/ AutoDerivedAndKept)]_vars

\* C10 amended: the rules of the instance change only in a setParams call, in
\* a setModel or loadModel call (which replace them by the decoded model's),
\* or in a transform that derives them while keepAutogeneratedRules is set.
C10_RulesChangeOnlyBy ==
    [][inst'.rules # inst.rules =>
          (call'.op \in {"setParams", "setModel", "loadModel"} \/ AutoDerivedAndKept)]_vars

C10_Witness ==
    /\ call.op = "setModel"
    /\ outcome = "returned"
    /\ inst.rules # pre.rules

=============================================================================
